---- MODULE Spec2Model ----
(***************************************************************************)
(* Model of scripts/generate-blog-sitemap.js: one run of writeBlogSitemap. *)
(* The run fetches posts page by page from the WordPress API, falls back   *)
(* to the RSS feed, fetches the categories, renders the sitemap and writes *)
(* it to dist/sitemap-blog.xml.  The HTTP transport and the filesystem are *)
(* the environment: every response and every filesystem outcome is chosen  *)
(* nondeterministically from small sets.                                   *)
(***************************************************************************)
EXTENDS Integers, Sequences, FiniteSets, TLC

VARIABLES
    pc,           \* position of writeBlogSitemap
    acc,          \* fetchAllPosts: local posts accumulator
    page,         \* fetchAllPosts: page
    totalPages,   \* fetchAllPosts: totalPages
    sanitized,    \* fetchPostsFromRss: sanitized
    posts,        \* writeBlogSitemap: posts
    apiError,     \* writeBlogSitemap: apiError ("none" for null)
    viaFallback,  \* writeBlogSitemap: viaFallback
    categories,   \* writeBlogSitemap: categories
    sitemap,      \* writeBlogSitemap: urls, the entries of the rendered sitemap
    distExists,   \* filesystem: the dist directory exists
    file,         \* filesystem: dist/sitemap-blog.xml
    result,       \* what writeBlogSitemap gave its caller
    reqs,         \* the HTTP requests issued so far, in order
    apiResult,    \* what the call fetchAllPosts() gave (line 150)
    rssResult,    \* what the call fetchPostsFromRss() gave (line 161)
    fsFailed,     \* some filesystem call of this run has thrown
    env,          \* process.env: which of the credential variables are set
    sent,         \* the Authorization header of each request of reqs
    headers,      \* the X-WP-TotalPages value of each page answered ok, in order
    xml           \* fetchPostsFromRss: the <item> chunks of xml, when kept

vars == <<pc, acc, page, totalPages, sanitized, posts, apiError, viaFallback, categories,
          sitemap, distExists, file, result, reqs, apiResult, rssResult, fsFailed,
          env, sent, headers, xml>>

(***************************************************************************)
(* Bounds of the model and configuration                                   *)
(***************************************************************************)
\* VITE_PRERENDER_BLOG_LIMIT set to 2 (any finite positive number is kept)
BLOG_LIMIT == 2
\* the run date, new Date(), as a day number
Today == 9
\* most posts in one page response (the server may exceed per_page)
MaxPageLen == 2
\* largest X-WP-TotalPages value a response carries
MaxTotalPages == 2
\* largest X-WP-TotalPages value in the runs that follow the page loop
MaxDeepPages == 4
\* most <item> chunks in the feed
MaxFeedItems == 3
\* most categories in the categories response
MaxCategories == 2

Min(a, b) == IF a < b THEN a ELSE b

SeqsUpTo(S, n) == UNION {[1..k -> S] : k \in 0..n}

\* Array.prototype.slice(0, n)
Slice(s, n) == SubSeq(s, 1, Min(n, Len(s)))

Last(s) == s[Len(s)]

(***************************************************************************)
(* Data the environment can send                                           *)
(***************************************************************************)
\* A post object.  slug "" stands for a missing or empty slug, term "" for no
\* _embedded['wp:term'][0][0], modified 0 for no modified field, link <<>> for
\* no link field.  link holds the pieces of link.split('/').
ApiPost(slug, term, modified) ==
    [slug |-> slug, link |-> <<>>, date |-> 0, modified |-> modified, term |-> term]

ApiPosts ==
    { ApiPost("a", "news", 3), ApiPost("b", "", 0), ApiPost("", "news", 3) }

\* One <item> chunk of the feed: link is the text of its first <link>, as the
\* pieces between its '/' characters (<<>>: the chunk has no <link>); pubDate
\* is "none" (no <pubDate>), "bad" (text that is no date) or "d1" (day 1).
FeedItem(link, pubDate) == [link |-> link, pubDate |-> pubDate]

FeedItems ==
    { FeedItem(<<"https:", "", "h", "news", "a">>, "d1"),   \* https://h/news/a
      FeedItem(<<"https:", "", "h", "b", "">>, "none"),     \* https://h/b/
      FeedItem(<<"c">>, "none"),                            \* c
      FeedItem(<<>>, "d1"),                                 \* no <link>
      FeedItem(<<"", "">>, "none"),                         \* /
      FeedItem(<<"https:", "", "h", "news", "a">>, "bad") }

Category(slug, count) == [slug |-> slug, count |-> count]

Categories == { Category("news", 2), Category("misc", 0) }

\* The value fetchCategories returns: the parsed body, whatever JSON it was.
CatArray(items) == [kind |-> "array", items |-> items]
CatNull == [kind |-> "null", items |-> <<>>]
CatObject == [kind |-> "object", items |-> <<>>]

Outcomes == {"ok", "status", "throw", "body"}

Request(kind, p, outcome) == [kind |-> kind, page |-> p, outcome |-> outcome]

(***************************************************************************)
(* The filesystem                                                          *)
(***************************************************************************)
Absent == [state |-> "absent", urls |-> <<>>]
Stale == [state |-> "stale", urls |-> <<>>]
Partial == [state |-> "partial", urls |-> <<>>]
Written(urls) == [state |-> "written", urls |-> urls]
\* emptySitemap: the urlset envelope with no <url>
EmptySitemap == Written(<<>>)

Pending == [state |-> "pending", posts |-> <<>>]
Threw == [state |-> "threw", posts |-> <<>>]
Returned(ps) == [state |-> "returned", posts |-> ps]

\* process.env: WP_API_TOKEN, WP_API_USER, WP_API_PASSWORD set (non-empty) or not
Env(token, user, password) == [token |-> token, user |-> user, password |-> password]
Envs == {Env(t, u, p) : t \in BOOLEAN, u \in BOOLEAN, p \in BOOLEAN}
NoCredentials == Env(FALSE, FALSE, FALSE)

\* Basic preferred to Bearer
AuthorizationBasicFirst(e) ==
    IF e.user /\ e.password THEN "Basic" ELSE IF e.token THEN "Bearer" ELSE "none"
\* buildHeaders: the scheme of the Authorization header, "none" when not set
Authorization(e) ==
    IF e.token THEN "Bearer" ELSE IF e.user /\ e.password THEN "Basic" ELSE "none"

\* the headers of the feed request (line 97) hold no Authorization
RssAuthorization == "none"

\* the state when writeBlogSitemap is called with environment e
Start(e) ==
    /\ pc = "primary"
    /\ acc = <<>>
    /\ page = 1
    /\ totalPages = 1
    /\ sanitized = <<>>
    /\ posts = <<>>
    /\ apiError = "none"
    /\ viaFallback = FALSE
    /\ categories = CatArray(<<>>)
    /\ sitemap = <<>>
    /\ \E d \in BOOLEAN, f \in {Absent, Stale} :
          /\ (f = Stale => d)
          /\ distExists = d
          /\ file = f
    /\ result = "none"
    /\ reqs = <<>>
    /\ apiResult = Pending
    /\ rssResult = Pending
    /\ fsFailed = FALSE
    /\ env = e
    /\ sent = <<>>
    /\ headers = <<>>
    /\ xml = <<>>

\* a run with no credential variable set
Init == Start(NoCredentials)

\* a run under any setting of the credential variables
InitAnyEnv == \E e \in Envs : Start(e)

(***************************************************************************)
(* fetchAllPosts                                                           *)
(***************************************************************************)
\* the test on the number of posts forgotten
LoopContinuesIgnoresLimit(p, tp, a) == p <= tp
\* while (page <= totalPages && posts.length < BLOG_LIMIT)
LoopContinues(p, tp, a) == p <= tp /\ Len(a) < BLOG_LIMIT

\* a response without the header puts totalPages back to 1
NextTotalPagesReset(tp, header) == IF header > 0 THEN header ELSE 1
\* headerPages = Number(X-WP-TotalPages); 0 stands for every value that is NaN
\* or not > 0 (an absent header gives Number(null) = 0)
NextTotalPages(tp, header) == IF header > 0 THEN header ELSE tp

\* the slice forgotten
FetchAllPostsReturnAll(a) == a
\* return posts.slice(0, BLOG_LIMIT)
FetchAllPostsReturn(a) == Slice(a, BLOG_LIMIT)

\* the pages fetched before the failure kept
PostsAfterThrowPartial(a) == a
\* fetchAllPosts threw: the assignment posts = await fetchAllPosts() never
\* happened, posts is still [] whatever the loop had accumulated
PostsAfterThrow(a) == <<>>

\* the feed fetched whatever the API gave
NeedsFallbackAlways(ps) == TRUE
\* if (!posts || posts.length === 0)
NeedsFallback(ps) == Len(ps) = 0

\* A page request answered with a success status and a JSON array.
PageReturns(data, header) ==
    /\ pc = "primary"
    /\ LoopContinues(page, totalPages, acc)
    /\ reqs' = Append(reqs, Request("posts", page, "ok"))
    /\ sent' = Append(sent, Authorization(env))
    /\ LET acc2 == acc \o data
           tp2 == NextTotalPages(totalPages, header)
           ps == FetchAllPostsReturn(acc2)
       IN  /\ page' = page + 1
           /\ totalPages' = tp2
           /\ IF LoopContinues(page + 1, tp2, acc2)
              THEN /\ acc' = acc2
                   /\ UNCHANGED <<pc, posts, apiResult>>
              ELSE /\ acc' = acc2
                   /\ posts' = ps
                   /\ apiResult' = Returned(ps)
                   /\ pc' = IF NeedsFallback(ps) THEN "fallback" ELSE "categories"
    /\ UNCHANGED <<sanitized, apiError, viaFallback, categories, sitemap, distExists,
                   file, result, rssResult, fsFailed,
                   env, xml>>

PageOk(data, header) == PageReturns(data, header) /\ UNCHANGED headers

\* The same step, the X-WP-TotalPages value of the response kept in headers.
PageOkKept(data, header) ==
    PageReturns(data, header) /\ headers' = Append(headers, header)

\* A page request that makes fetchJson throw: fetch rejects ("throw"), the
\* status is not ok ("status"), or the body is no JSON array ("body").
PageFails(outcome) ==
    /\ pc = "primary"
    /\ LoopContinues(page, totalPages, acc)
    /\ outcome # "ok"
    /\ reqs' = Append(reqs, Request("posts", page, outcome))
    /\ sent' = Append(sent, Authorization(env))
    /\ apiError' = outcome
    /\ apiResult' = Threw
    /\ posts' = PostsAfterThrow(acc)
    /\ acc' = acc
    /\ pc' = IF NeedsFallback(posts') THEN "fallback" ELSE "categories"
    /\ UNCHANGED <<page, totalPages, sanitized, viaFallback, categories, sitemap,
                   distExists, file, result, rssResult, fsFailed,
                   env, headers, xml>>

(***************************************************************************)
(* fetchPostsFromRss                                                       *)
(***************************************************************************)
\* link.split('/').filter(Boolean)
Segments(link) == SelectSeq(link, LAMBDA x : x # "")

\* the object built for one <item> chunk (lines 106-117)
ItemPost(item) ==
    LET segs == Segments(item.link)
    IN  [slug |-> IF segs = <<>> THEN "" ELSE Last(segs),
         link |-> item.link,
         date |-> IF item.pubDate = "none" THEN Today ELSE 1,
         modified |-> 0,
         term |-> IF Len(segs) >= 2 THEN segs[Len(segs) - 1] ELSE "blog"]

\* posts.filter(p => p.slug && p.link)
Sanitize(ps) == SelectSeq(ps, LAMBDA p : p.slug # "" /\ p.link # <<>>)

\* sanitized for a feed received with status ok.  new Date(text).toISOString()
\* throws on a pubDate that is no date: the throw leaves items.map for the
\* catch before sanitized is assigned.
FeedThrows(feed) == \E i \in 1..Len(feed) : feed[i].pubDate = "bad"

Usable(feed) == Sanitize([i \in 1..Len(feed) |-> ItemPost(feed[i])])

\* if (sanitized.length === 0) throw ...; return sanitized.slice(0, BLOG_LIMIT)
\* with the catch returning []
RssReturn(s) == IF Len(s) = 0 THEN <<>> ELSE Slice(s, BLOG_LIMIT)

\* the run giving up as soon as the feed has given no post, the categories
\* never asked for
RssReturnsGivesUp(s, outcome) ==
    /\ pc = "fallback"
    /\ reqs' = Append(reqs, Request("rss", 0, outcome))
    /\ sent' = Append(sent, RssAuthorization)
    /\ sanitized' = s
    /\ posts' = RssReturn(s)
    /\ viaFallback' = (Len(posts') > 0)
    /\ rssResult' = Returned(posts')
    /\ pc' = IF Len(posts') = 0 THEN "catch" ELSE "categories"
    /\ UNCHANGED <<acc, page, totalPages, apiError, categories, sitemap,
                   distExists, file, result, apiResult, fsFailed,
                   env, headers>>

\* lines 159-165: the feed fetch has returned, fetchCategories is next
RssReturns(s, outcome) ==
    /\ pc = "fallback"
    /\ reqs' = Append(reqs, Request("rss", 0, outcome))
    /\ sent' = Append(sent, RssAuthorization)
    /\ sanitized' = s
    /\ posts' = RssReturn(s)
    /\ viaFallback' = (Len(posts') > 0)
    /\ rssResult' = Returned(posts')
    /\ pc' = "categories"
    /\ UNCHANGED <<acc, page, totalPages, apiError, categories, sitemap,
                   distExists, file, result, apiResult, fsFailed,
                   env, headers>>

\* the feed received with status ok
RssOk(feed) ==
    /\ RssReturns(IF FeedThrows(feed) THEN <<>> ELSE Usable(feed), "ok")
    /\ UNCHANGED xml

\* the same step, the received <item> chunks kept for the claims about the parse
RssOkKept(feed) ==
    /\ RssReturns(IF FeedThrows(feed) THEN <<>> ELSE Usable(feed), "ok")
    /\ xml' = feed

\* fetch rejects, the status is not ok, or response.text() rejects
RssFails(outcome) == outcome # "ok" /\ RssReturns(<<>>, outcome) /\ UNCHANGED xml

(***************************************************************************)
(* fetchCategories and the rendering                                       *)
(***************************************************************************)
\* the catch of fetchCategories returning nothing
CategoriesAfterThrowNull == CatNull
\* the catch of fetchCategories: return []
CategoriesAfterThrow == CatArray(<<>>)

CategoryEntry(c) ==
    [loc |-> <<"blog", c.slug>>, lastmod |-> Today,
     changefreq |-> "weekly", priority |-> "0.7"]

\* the default category "blog" forgotten
PostEntryNoDefault(p) ==
    [loc |-> <<p.term, p.slug>>,
     lastmod |-> IF p.modified # 0 THEN p.modified ELSE Today,
     changefreq |-> "monthly", priority |-> "0.6"]
PostEntry(p) ==
    [loc |-> <<IF p.term # "" THEN p.term ELSE "blog", p.slug>>,
     lastmod |-> IF p.modified # 0 THEN p.modified ELSE Today,
     changefreq |-> "monthly", priority |-> "0.6"]

\* the count test dropped
CategoryIncludedAll(c) == TRUE
\* category.count > 0
CategoryIncluded(c) == c.count > 0

\* the two forEach loops in the other order
RenderPostsFirst(ps, cats) ==
    LET kept == SelectSeq(cats.items, CategoryIncluded)
    IN  [i \in 1..Len(ps) |-> PostEntry(ps[i])]
        \o [i \in 1..Len(kept) |-> CategoryEntry(kept[i])]
\* urls after the two forEach loops (lines 175-205)
Render(ps, cats) ==
    LET kept == SelectSeq(cats.items, CategoryIncluded)
    IN  [i \in 1..Len(kept) |-> CategoryEntry(kept[i])]
        \o [i \in 1..Len(ps) |-> PostEntry(ps[i])]

\* the test for no posts dropped
NoPostsNever(ps) == FALSE
\* if (!posts || posts.length === 0) throw new Error(msg)
NoPosts(ps) == Len(ps) = 0

\* lines 165-210 once fetchCategories has returned cats: the throw on no
\* posts, the TypeError of categories.length on null, or the rendered urls
CategoriesReturn(cats, outcome) ==
    /\ pc = "categories"
    /\ reqs' = Append(reqs, Request("categories", 0, outcome))
    /\ sent' = Append(sent, Authorization(env))
    /\ categories' = cats
    /\ IF NoPosts(posts) \/ cats.kind = "null"
       THEN /\ pc' = "catch"
            /\ UNCHANGED sitemap
       ELSE /\ pc' = "write"
            /\ sitemap' = Render(posts, cats)
    /\ UNCHANGED <<acc, page, totalPages, sanitized, posts, apiError, viaFallback, distExists,
                   file, result, apiResult, rssResult, fsFailed,
                   env, headers, xml>>

CategoriesOk(cats) == CategoriesReturn(cats, "ok")

CategoriesFail(outcome) ==
    outcome # "ok" /\ CategoriesReturn(CategoriesAfterThrow, outcome)

CategoryBodies ==
    {CatArray(items) : items \in SeqsUpTo(Categories, MaxCategories)}
        \cup {CatNull, CatObject}

(***************************************************************************)
(* Writing the file (lines 212-225) and the catch (lines 226-244)          *)
(***************************************************************************)
\* How a block of filesystem calls can go wrong: mkdirSync throws (only called
\* when dist is missing), writeFileSync throws before it touched the file or
\* after it truncated it, statSync throws.
WriteFaults == {"mkdirFail", "writeFail", "writePartial", "statFail"}
CatchFaults == {"mkdirFail", "writeFail", "writePartial"}

\* the filesystem after a block that ended in fault f, content being written
DistAfter(f) == IF f = "mkdirFail" THEN distExists ELSE TRUE

FileAfter(f, content) ==
    CASE f = "mkdirFail" -> file
      [] f = "writeFail" -> file
      [] f = "writePartial" -> Partial
      [] OTHER -> Written(content)

\* true returned with the file left as it was
WriteOkKeepsFile ==
    /\ pc = "write"
    /\ result' = "true"
    /\ pc' = "done"
    /\ UNCHANGED <<acc, page, totalPages, sanitized, posts, apiError, viaFallback,
                   categories, sitemap, distExists, file, reqs, apiResult,
                   rssResult, fsFailed,
                   env, sent, headers, xml>>
\* lines 212-225 with every filesystem call succeeding
WriteOk ==
    /\ pc = "write"
    /\ distExists' = TRUE
    /\ file' = Written(sitemap)
    /\ result' = "true"
    /\ pc' = "done"
    /\ UNCHANGED <<acc, page, totalPages, sanitized, posts, apiError, viaFallback, categories,
                   sitemap, reqs, apiResult, rssResult, fsFailed,
                   env, sent, headers, xml>>

\* lines 212-221 with a filesystem call throwing: control goes to the catch
WriteThrows(f) ==
    /\ pc = "write"
    /\ f \in WriteFaults
    /\ (f = "mkdirFail" => ~distExists)
    /\ distExists' = DistAfter(f)
    /\ file' = FileAfter(f, sitemap)
    /\ fsFailed' = TRUE
    /\ pc' = "catch"
    /\ UNCHANGED <<acc, page, totalPages, sanitized, posts, apiError, viaFallback, categories,
                   sitemap, result, reqs, apiResult, rssResult,
                   env, sent, headers, xml>>

\* the catch returning false without writing the empty sitemap
CatchOkNoFile ==
    /\ pc = "catch"
    /\ result' = "false"
    /\ pc' = "done"
    /\ UNCHANGED <<acc, page, totalPages, sanitized, posts, apiError, viaFallback,
                   categories, sitemap, distExists, file, reqs, apiResult,
                   rssResult, fsFailed,
                   env, sent, headers, xml>>
\* the catch with every filesystem call succeeding: return false
CatchOk ==
    /\ pc = "catch"
    /\ distExists' = TRUE
    /\ file' = EmptySitemap
    /\ result' = "false"
    /\ pc' = "done"
    /\ UNCHANGED <<acc, page, totalPages, sanitized, posts, apiError, viaFallback, categories,
                   sitemap, reqs, apiResult, rssResult, fsFailed,
                   env, sent, headers, xml>>

\* the catch with a filesystem call throwing: nothing encloses the catch, the
\* exception rejects the promise writeBlogSitemap returned
CatchThrows(f) ==
    /\ pc = "catch"
    /\ f \in CatchFaults
    /\ (f = "mkdirFail" => ~distExists)
    /\ distExists' = DistAfter(f)
    /\ file' = FileAfter(f, <<>>)
    /\ fsFailed' = TRUE
    /\ result' = "raised"
    /\ pc' = "done"
    /\ UNCHANGED <<acc, page, totalPages, sanitized, posts, apiError, viaFallback, categories,
                   sitemap, reqs, apiResult, rssResult,
                   env, sent, headers, xml>>

\* the steps after the last request
WriteSteps ==
    \/ WriteOk
    \/ \E f \in WriteFaults : WriteThrows(f)
    \/ CatchOk
    \/ \E f \in CatchFaults : CatchThrows(f)

Next ==
    \/ /\ pc = "primary"
       /\ \E data \in SeqsUpTo(ApiPosts, MaxPageLen), header \in 0..MaxTotalPages :
             PageOk(data, header)
    \/ \E outcome \in Outcomes : PageFails(outcome)
    \/ /\ pc = "fallback"
       /\ \E feed \in SeqsUpTo(FeedItems, MaxFeedItems) : RssOk(feed)
    \/ \E outcome \in Outcomes : RssFails(outcome)
    \/ /\ pc = "categories"
       /\ \E cats \in CategoryBodies : CategoriesOk(cats)
    \/ \E outcome \in Outcomes : CategoriesFail(outcome)
    \/ WriteSteps

Spec == Init /\ [][Next]_vars

\* Runs that follow the page loop further: totals up to MaxDeepPages, pages of
\* a single kind of post, a feed of at most one item, an empty category list.
DeepPages == SeqsUpTo({ApiPost("a", "news", 3)}, MaxPageLen)
ShortFeeds == SeqsUpTo({FeedItem(<<"https:", "", "h", "news", "a">>, "d1")}, 1)

NextPages ==
    \/ /\ pc = "primary"
       /\ \E data \in DeepPages, header \in 0..MaxDeepPages : PageOkKept(data, header)
    \/ \E outcome \in Outcomes : PageFails(outcome)
    \/ /\ pc = "fallback"
       /\ \E feed \in ShortFeeds : RssOk(feed)
    \/ \E outcome \in Outcomes : RssFails(outcome)
    \/ CategoriesOk(CatArray(<<>>))
    \/ \E outcome \in Outcomes : CategoriesFail(outcome)
    \/ WriteSteps

SpecPages == Init /\ [][NextPages]_vars

\* Runs that reach the feed at once and keep what it held: one empty page
\* from the API, any feed of at most MaxFeedItems items, an empty category
\* list.
NextFeed ==
    \/ PageOk(<<>>, 0)
    \/ \E outcome \in Outcomes : PageFails(outcome)
    \/ /\ pc = "fallback"
       /\ \E feed \in SeqsUpTo(FeedItems, MaxFeedItems) : RssOkKept(feed)
    \/ \E outcome \in Outcomes : RssFails(outcome)
    \/ CategoriesOk(CatArray(<<>>))
    \/ \E outcome \in Outcomes : CategoriesFail(outcome)
    \/ WriteSteps

SpecFeed == Init /\ [][NextFeed]_vars

\* Runs under every configuration of the credentials, over few responses.
NextAuth ==
    \/ /\ pc = "primary"
       /\ \E data \in DeepPages, header \in 0..MaxTotalPages : PageOk(data, header)
    \/ \E outcome \in Outcomes : PageFails(outcome)
    \/ /\ pc = "fallback"
       /\ \E feed \in ShortFeeds : RssOk(feed)
    \/ \E outcome \in Outcomes : RssFails(outcome)
    \/ CategoriesOk(CatArray(<<>>))
    \/ \E outcome \in Outcomes : CategoriesFail(outcome)
    \/ WriteSteps

SpecAuth == InitAnyEnv /\ [][NextAuth]_vars

(***************************************************************************)
(* Reading a state                                                         *)
(***************************************************************************)
Done == pc = "done"

IsPostEntry(u) == u.changefreq = "monthly" /\ u.priority = "0.6"
IsCategoryEntry(u) == u.changefreq = "weekly" /\ u.priority = "0.7"

\* the last path segment of an entry's <loc>
EntrySlug(u) == u.loc[Len(u.loc)]

PostEntriesOf(urls) == SelectSeq(urls, IsPostEntry)
CategoryEntriesOf(urls) == SelectSeq(urls, IsCategoryEntry)

RequestsOf(kind) == SelectSeq(reqs, LAMBDA r : r.kind = kind)

\* entries and objects agree slug by slug, in order
SameSlugs(entries, objects) ==
    /\ Len(entries) = Len(objects)
    /\ \A i \in 1..Len(entries) : EntrySlug(entries[i]) = objects[i].slug

\* the primary fetch is over and gave no post (it threw, or returned [])
PrimaryEmpty ==
    \/ apiResult.state = "threw"
    \/ apiResult.state = "returned" /\ Len(apiResult.posts) = 0

\* the fallback fetch was made and gave no post
FallbackEmpty == rssResult.state = "returned" /\ Len(rssResult.posts) = 0

(***************************************************************************)
(* Claims                                                                  *)
(***************************************************************************)
\* C1: whatever the page, feed and category requests did, a run in which no
\* filesystem call failed ends by returning a value (it never raises), and the
\* file then holds the sitemap rendered from the posts and categories of the
\* run, with at least one post, or the empty urlset envelope.
C1_ReturnsAndFileWritten ==
    /\ ~fsFailed => result # "raised"
    /\ (Done /\ ~fsFailed) =>
          /\ result \in {"true", "false"}
          /\ distExists
          /\ \/ file = EmptySitemap
             \/ /\ file = Written(Render(posts, categories))
                /\ Len(posts) > 0

\* every request failed in a different way, the filesystem worked
C1_Witness ==
    /\ Done /\ ~fsFailed
    /\ reqs = <<Request("posts", 1, "throw"), Request("rss", 0, "status"),
                Request("categories", 0, "body")>>
    /\ result = "false"
    /\ file = EmptySitemap

\* C2: the feed is fetched exactly once when the primary fetch failed or gave
\* no post, not at all when it gave at least one post, never before the
\* primary fetch is over; and a sitemap rendered after a non-empty fallback
\* holds exactly the fallback's posts.
C2_FallbackExactlyOnce ==
    /\ pc \in {"primary", "fallback"} =>
          (rssResult.state = "pending" /\ Len(RequestsOf("rss")) = 0)
    /\ (pc \notin {"primary", "fallback"} /\ PrimaryEmpty) =>
          (rssResult.state = "returned" /\ Len(RequestsOf("rss")) = 1)
    /\ (pc \notin {"primary", "fallback"} /\ ~PrimaryEmpty) =>
          (rssResult.state = "pending" /\ Len(RequestsOf("rss")) = 0)
    /\ (result = "true" /\ rssResult.state = "returned") =>
          /\ Len(rssResult.posts) > 0
          /\ PostEntriesOf(file.urls)
                = [i \in 1..Len(rssResult.posts) |-> PostEntry(rssResult.posts[i])]

\* the API answered with an empty array and the feed's posts were rendered
C2_Witness ==
    /\ result = "true"
    /\ apiResult = Returned(<<>>)
    /\ Len(rssResult.posts) > 0
    /\ Len(PostEntriesOf(file.urls)) = Len(rssResult.posts)

\* C3: when the primary fetch and the fallback fetch both gave no post, nothing
\* is rendered whatever the categories request returned: no sitemap with a
\* <url> is ever written and true is never returned; and with the filesystem
\* working the run ends with the empty urlset envelope on disk and false
\* returned.
C3_BothEmptyDegrades ==
    (PrimaryEmpty /\ FallbackEmpty) =>
        /\ pc # "write"
        /\ result # "true"
        /\ file.urls = <<>>
        /\ (Done /\ ~fsFailed) => (result = "false" /\ file = EmptySitemap)

\* both sources empty although the categories request gave a category with posts
C3_Witness ==
    /\ Done
    /\ PrimaryEmpty /\ FallbackEmpty
    /\ categories = CatArray(<<Category("news", 2)>>)
    /\ result = "false"
    /\ file = EmptySitemap

\* C4: never more than BLOG_LIMIT posts: in posts, in the rendered entries, in
\* the file.
C4_TruncationLaw ==
    /\ Len(posts) <= BLOG_LIMIT
    /\ Len(PostEntriesOf(sitemap)) <= BLOG_LIMIT
    /\ Len(PostEntriesOf(file.urls)) <= BLOG_LIMIT

\* the feed had more usable items than BLOG_LIMIT
C4_Witness ==
    /\ result = "true"
    /\ Len(sanitized) > BLOG_LIMIT
    /\ Len(PostEntriesOf(file.urls)) = BLOG_LIMIT

\* C5: when the categories request failed and there is at least one post, a
\* run in which no filesystem call failed returns true, and the file holds one
\* entry per post, in order, and no category entry.
C5_CategoryResilience ==
    (/\ Done /\ ~fsFailed
     /\ Last(reqs).kind = "categories" /\ Last(reqs).outcome # "ok"
     /\ Len(posts) > 0) =>
        /\ result = "true"
        /\ file.state = "written"
        /\ \A i \in 1..Len(file.urls) : IsPostEntry(file.urls[i])
        /\ SameSlugs(file.urls, posts)

\* posts from the API, the categories request answered with an error status
C5_Witness ==
    /\ Done /\ ~fsFailed
    /\ apiResult.state = "returned" /\ Len(posts) = 2
    /\ Last(reqs) = Request("categories", 0, "status")
    /\ result = "true"
    /\ Len(file.urls) = 2

\* the last posts page request was answered with a non-success status
PageStatusFailure ==
    LET pr == RequestsOf("posts")
    IN  Len(pr) > 0 /\ Last(pr).outcome = "status"

\* C6: once a page request is answered with a non-success status, on page 1
\* or later, fetchAllPosts has thrown and returned nothing, posts is empty
\* until the fallback fills it, the next request is the feed, and a sitemap
\* rendered in that run holds the fallback's posts and no post accumulated
\* from the earlier pages.
C6_PageFailureFailsWhole ==
    PageStatusFailure =>
        /\ apiResult = Threw
        /\ apiError = "status"
        /\ \/ pc = "fallback" /\ posts = <<>>
           \/ rssResult.state = "returned" /\ posts = rssResult.posts
        /\ Len(reqs) > Len(RequestsOf("posts")) =>
              reqs[Len(RequestsOf("posts")) + 1].kind = "rss"
        /\ result = "true" =>
              /\ SameSlugs(PostEntriesOf(file.urls), rssResult.posts)
              /\ \A i \in 1..Len(file.urls), j \in 1..Len(acc) :
                    file.urls[i] # PostEntry(acc[j])

\* page 1 gave a post, page 2 failed with a status, the feed's posts were rendered
C6_Witness ==
    /\ result = "true"
    /\ Len(acc) > 0
    /\ Len(reqs) >= 3
    /\ SubSeq(reqs, 1, 3) = <<Request("posts", 1, "ok"), Request("posts", 2, "status"),
                              Request("rss", 0, "ok")>>
    /\ Len(PostEntriesOf(file.urls)) > 0

\* the posts of the source that was used: the fallback's when it was fetched
SourcePosts ==
    IF rssResult.state = "returned" THEN rssResult.posts ELSE apiResult.posts

\* C7: in the file of a run that returned true, no post entry stands before a
\* category entry, and the post entries follow the order of the posts the
\* source returned.
C7_CategoriesFirstPostsInOrder ==
    result = "true" =>
        /\ \A i, j \in 1..Len(file.urls) :
              (IsPostEntry(file.urls[i]) /\ IsCategoryEntry(file.urls[j])) => j < i
        /\ SameSlugs(PostEntriesOf(file.urls), SourcePosts)

\* a category entry and two different posts were written
C7_Witness ==
    /\ result = "true"
    /\ Len(CategoryEntriesOf(file.urls)) > 0
    /\ LET pe == PostEntriesOf(file.urls)
       IN  Len(pe) = 2 /\ EntrySlug(pe[1]) # EntrySlug(pe[2])

\* the fetched categories that have posts
WithPosts(cats) == SelectSeq(cats, LAMBDA c : c.count > 0)

\* C8: the file of a run that returned true holds one entry per fetched
\* category with count > 0 (none for count 0), one entry per post, and
\* nothing else.
C8_ExactlyTheEntries ==
    result = "true" =>
        /\ \A i \in 1..Len(file.urls) :
              IsPostEntry(file.urls[i]) \/ IsCategoryEntry(file.urls[i])
        /\ SameSlugs(CategoryEntriesOf(file.urls), WithPosts(categories.items))
        /\ SameSlugs(PostEntriesOf(file.urls), posts)
        /\ \A i \in 1..Len(file.urls) :
              IsCategoryEntry(file.urls[i]) => file.urls[i].loc[1] = "blog"

\* one category with posts and one without were fetched
C8_Witness ==
    /\ result = "true"
    /\ categories = CatArray(<<Category("misc", 0), Category("news", 2)>>)
    /\ Len(CategoryEntriesOf(file.urls)) = 1
    /\ Len(PostEntriesOf(file.urls)) = Len(posts)

\* C9: every post entry of a file written by a run that returned true has a
\* non-empty slug.
C9_RenderedSlugsNonEmpty ==
    result = "true" =>
        \A i \in 1..Len(file.urls) :
            IsPostEntry(file.urls[i]) => EntrySlug(file.urls[i]) # ""

\* C10: writeBlogSitemap never raises to its caller, whatever the filesystem
\* calls did.
C10_NeverRaises == result # "raised"


\* C11: in the file of a run that returned true, the entries are first one per
\* category with posts, at <baseUrl>/blog/<slug>, weekly, 0.7, then one per
\* post, at <baseUrl>/<categorySlug>/<slug>, monthly, 0.6, categorySlug being
\* the slug of the post's first embedded term and "blog" when it has none.
C11_EntryFields ==
    result = "true" =>
        LET kept == WithPosts(categories.items)
            n == Len(kept)
        IN  /\ Len(file.urls) = n + Len(posts)
            /\ \A i \in 1..n :
                  /\ file.urls[i].loc = <<"blog", kept[i].slug>>
                  /\ file.urls[i].changefreq = "weekly"
                  /\ file.urls[i].priority = "0.7"
            /\ \A j \in 1..Len(posts) :
                  /\ file.urls[n + j].loc
                        = <<IF posts[j].term = "" THEN "blog" ELSE posts[j].term,
                            posts[j].slug>>
                  /\ file.urls[n + j].changefreq = "monthly"
                  /\ file.urls[n + j].priority = "0.6"

\* a category entry, a post with an embedded term and a post without one
C11_Witness ==
    /\ result = "true"
    /\ posts = <<ApiPost("a", "news", 3), ApiPost("b", "", 0)>>
    /\ file.urls = <<CategoryEntry(Category("news", 2)),
                     [loc |-> <<"news", "a">>, lastmod |-> 3,
                      changefreq |-> "monthly", priority |-> "0.6"],
                     [loc |-> <<"blog", "b">>, lastmod |-> Today,
                      changefreq |-> "monthly", priority |-> "0.6"]>>


\* The total-page count the source has reported so far: the last positive
\* header value of the responses h, and 1 while there is none.
RECURSIVE Reported(_)
Reported(h) ==
    IF Len(h) = 0 THEN 1
    ELSE IF Last(h) > 0 THEN Last(h)
    ELSE Reported(SubSeq(h, 1, Len(h) - 1))

PageRequests == Len(RequestsOf("posts"))

\* C12: the page requests come first, are for pages 1, 2, 3, ... in order,
\* each once; after the answer to page p the loop goes on to page p + 1
\* exactly when fewer than BLOG_LIMIT posts are accumulated and p + 1 is at
\* most the total the source has reported (1 before any report).
C12_PagesInOrderUntilLimitOrTotal ==
    /\ \A i \in 1..PageRequests : reqs[i].kind = "posts" /\ reqs[i].page = i
    /\ pc = "primary" => page = PageRequests + 1
    /\ (pc = "primary" /\ Len(headers) >= 1) =>
            Len(acc) < BLOG_LIMIT /\ Len(headers) + 1 <= Reported(headers)
    /\ apiResult.state = "returned" =>
            /\ PageRequests = Len(headers)
            /\ ~(Len(acc) < BLOG_LIMIT /\ Len(headers) + 1 <= Reported(headers))

C12_Witness ==
    /\ apiResult.state = "returned"
    /\ headers = <<3, 0, 0>>
    /\ Len(acc) < BLOG_LIMIT
    /\ Len(reqs) > 3

\* C13 as stated: a response without a usable X-WP-TotalPages header is
\* followed by at most one further page request.
C13_AtMostOneMoreAfterMissingHeader ==
    \A i \in 1..Len(headers) : headers[i] = 0 => PageRequests <= i + 1

\* C13: a response without a usable X-WP-TotalPages header leaves the total
\* as it was, 1 before any response has reported one: the requests that
\* follow it, until a response reports a total again, stay within the last
\* total reported before it, so none follows when there was none.
C13_MissingHeaderKeepsTotal ==
    /\ totalPages = Reported(headers)
    /\ \A i \in 1..Len(headers) : \A k \in (i + 1)..PageRequests :
            (\A m \in i..(k - 1) : headers[m] = 0) =>
                k <= Reported(SubSeq(headers, 1, i - 1))

C13_Witness ==
    /\ headers = <<4, 0, 0>>
    /\ PageRequests = 4


\* An <item> chunk with a link whose last segment is not empty and without an
\* unparseable <pubDate>.
UsableItem(item) == Segments(item.link) # <<>> /\ item.pubDate # "bad"

\* C14: a feed received with at least one usable item yields the posts of its
\* usable items (the first BLOG_LIMIT of them), whatever malformed items
\* stand beside them.
C14_MalformedItemsSkipped ==
    rssResult.state = "returned" =>
        LET usable == SelectSeq(xml, UsableItem)
        IN  usable # <<>> =>
                rssResult.posts =
                    Slice([i \in 1..Len(usable) |-> ItemPost(usable[i])], BLOG_LIMIT)

\* The path segments of a link: the non-empty pieces between the slashes,
\* the scheme and the host of an absolute link left out.
PathSegments(link) ==
    IF Len(link) >= 3 /\ link[1] = "https:" /\ link[2] = ""
    THEN Segments(SubSeq(link, 4, Len(link)))
    ELSE Segments(link)

\* C15: every post derived from a feed item has the last path segment of
\* its link as slug, and as category slug the second-to-last path segment,
\* "blog" when the path has fewer than two segments.
C15_SlugsFromPathSegments ==
    \A i \in 1..Len(sanitized) :
        LET path == PathSegments(sanitized[i].link)
        IN  /\ sanitized[i].slug = (IF path = <<>> THEN "" ELSE Last(path))
            /\ sanitized[i].term =
                   (IF Len(path) >= 2 THEN path[Len(path) - 1] ELSE "blog")


\* C16: a run issues one category request, never more, and issues it after
\* its last post-source request: no page or feed request follows it, and
\* every run that has left the fetching behind has made it, also when neither
\* source gave a post.
C16_OneCategoryRequestLast ==
    /\ Len(RequestsOf("categories")) <= 1
    /\ \A i \in 1..Len(reqs) : reqs[i].kind = "categories" => i = Len(reqs)
    /\ pc \in {"primary", "fallback", "categories"} =>
            Len(RequestsOf("categories")) = 0
    /\ pc \in {"write", "catch", "done"} =>
            Len(RequestsOf("categories")) = 1

C16_Witness ==
    /\ Done
    /\ PrimaryEmpty /\ FallbackEmpty
    /\ Len(RequestsOf("posts")) = 2
    /\ Len(reqs) = 4
    /\ reqs[4].kind = "categories"


\* The date the source supplied for post p: its modification date, else its
\* publication date, else none, which stands for the run date.
SuppliedDate(p) ==
    IF p.modified # 0 THEN p.modified ELSE IF p.date # 0 THEN p.date ELSE Today

\* C17: in the file of a run that returned true every post entry has as
\* lastmod the date the source supplied for the post, and the run date only
\* for a post that came without a date.
C17_LastmodIsSuppliedDate ==
    result = "true" =>
        LET entries == PostEntriesOf(file.urls)
        IN  /\ Len(entries) = Len(posts)
            /\ \A i \in 1..Len(entries) :
                    entries[i].lastmod = SuppliedDate(posts[i])


\* C18: every posts page request and the categories request carry Bearer
\* when a token is configured, whatever else is, Basic when no token but a
\* user name and a password are, and no Authorization header otherwise; the
\* feed request never carries one.
C18_AuthorizationOnPrimaryOnly ==
    /\ Len(sent) = Len(reqs)
    /\ \A i \in 1..Len(reqs) :
          IF reqs[i].kind = "rss"
          THEN sent[i] = "none"
          ELSE /\ env.token => sent[i] = "Bearer"
               /\ (~env.token /\ env.user /\ env.password) => sent[i] = "Basic"
               /\ (~env.token /\ ~(env.user /\ env.password)) => sent[i] = "none"

C18_Witness ==
    /\ Done
    /\ env = Env(TRUE, TRUE, TRUE)
    /\ Len(reqs) = 4
    /\ sent = <<"Bearer", "Bearer", "none", "Bearer">>


\* What the test of the page loop depends on: how many posts are still
\* wanted and how far the page index is from the total.
LoopSituation(p, tp, a) == <<BLOG_LIMIT - Len(a), tp - p>>

\* C19: the page loop ends under every sequence of successful responses.
\* The loop reads page, totalPages and posts only through LoopSituation, and
\* the server is free in what it answers next, so a response that keeps the
\* loop going and leaves LoopSituation as it was can be repeated for ever:
\* termination requires that no response does so.
C19_NoResponseLeavesLoopInPlace ==
    [][(pc = "primary" /\ pc' = "primary" /\ Len(reqs') > Len(reqs)) =>
            LoopSituation(page', totalPages', acc') #
                LoopSituation(page, totalPages, acc)]_vars


\* true is returned only over a rendered sitemap with a post entry, false
\* only over the empty envelope
OutcomeAgreesWithFile ==
    /\ result = "true" =>
            file = Written(sitemap) /\ Len(PostEntriesOf(file.urls)) >= 1
    /\ result = "false" => file = EmptySitemap

PostsAndCategoryArray == Len(posts) > 0 /\ categories.kind = "array"

====
